---- MODULE Spec2Model ----
(***************************************************************************)
(* Model of the review agent (src/src/workers/review-agent.ts): the        *)
(* response parser, the review and chat handlers and the D1 conversation   *)
(* store they write to.                                                    *)
(*                                                                         *)
(* Text is modelled at the level of whitespace-separated tokens: a string  *)
(* is a sequence of tokens, two neighbouring tokens are separated by one   *)
(* space, and the token NL stands for a newline character (it replaces the *)
(* space).  The regular expressions of the source are translated to what   *)
(* they accept on such token sequences.                                    *)
(***************************************************************************)
EXTENDS Integers, Sequences, FiniteSets, TLC

(***************************************************************************)
(* Bounds of the model.                                                    *)
(***************************************************************************)
MaxTextLines == 2
MaxCodeLines == 2

(***************************************************************************)
(* Tokens.                                                                 *)
(***************************************************************************)
NL == "\n"

\* String.prototype.toLowerCase on the tokens of the vocabulary.
Lower(tok) ==
  CASE tok = "Line" -> "line"
    [] tok = "Fix:" -> "fix:"
    [] tok = "BUG" -> "bug"
    [] tok = "SECURITY" -> "security"
    [] tok = "STYLE" -> "style"
    [] tok = "PERFORMANCE" -> "performance"
    [] tok = "OPTIMIZATION" -> "optimization"
    [] tok = "WARNING" -> "warning"
    [] OTHER -> tok

\* The keywords (of analyzeSectionType, of the escalation test and of the
\* degraded summary) that the lower-cased token contains as a substring.
KeywordsOf(tok) ==
  LET l == Lower(tok) IN
  CASE l = "security" -> {"security"}
    [] l = "injection" -> {"injection"}
    [] l = "bug" -> {"bug"}
    [] l = "missing" -> {"missing"}
    [] l = "performance" -> {"performance"}
    [] l = "slow" -> {"slow"}
    [] l = "optimization" -> {"optimization"}
    [] l = "improve" -> {"improve"}
    [] l = "critical" -> {"critical"}
    [] l = "severe" -> {"severe"}
    [] l = "unavailable." -> {"unavailable"}
    [] OTHER -> {}

\* text.toLowerCase().includes(kw)
Includes(text, kw) == \E i \in 1..Len(text) : kw \in KeywordsOf(text[i])

\* The token ends with "line" (case-insensitive): the regex /Line/i is not
\* anchored, so it matches the tail of a token.
IsLineWord(tok) == Lower(tok) = "line"

\* The value of the digits a token starts with; -1 when it starts with none.
LeadingNumber(tok) ==
  CASE tok \in {"0", "0:"} -> 0
    [] tok \in {"1", "1:"} -> 1
    [] tok \in {"2", "2:"} -> 2
    [] tok \in {"3", "3:"} -> 3
    [] tok \in {"9", "9:"} -> 9
    [] OTHER -> -1

\* The token is (\d+): , digits and a colon and nothing else.
IsNumColon(tok) == tok \in {"0:", "1:", "2:", "3:", "9:"}

\* The token is (\w+) , letters, digits and underscores only.
IsWord(tok) ==
  tok \notin {NL, "|", "Fix:", "fix:", "#", "##", "-", "*", ".",
              "0:", "1:", "2:", "3:", "9:", "unavailable."}

\* Index of the first token after position i that is not a newline, 0 when
\* there is none: what \s+ skips between two tokens.
RECURSIVE NextTok(_, _)
NextTok(text, i) ==
  IF i + 1 > Len(text) THEN 0
  ELSE IF text[i + 1] # NL THEN i + 1
  ELSE NextTok(text, i + 1)

\* Index of the last token of the line that token i is on ( . matches no
\* newline).
RECURSIVE LineEnd(_, _)
LineEnd(text, i) ==
  IF i + 1 > Len(text) \/ text[i + 1] = NL THEN i
  ELSE LineEnd(text, i + 1)

\* code.split('\n'): the code is kept as the sequence of its lines.
SplitLines(code) == code

(***************************************************************************)
(* Suggestions.  A CodeSuggestion is kept as a record of its type, its     *)
(* severity, its optional line (hasLine FALSE and line 0 when absent), its *)
(* message and its optional suggested fix (<<>> when absent or null); the  *)
(* random id and the explanation string are left out.                      *)
(***************************************************************************)
IssueTypes == {"security", "performance", "style", "bug", "optimization"}

Severities == {"low", "medium", "high", "critical"}

Suggestion(type, severity, hasLine, line, message, fix) ==
  [type |-> type, severity |-> severity, hasLine |-> hasLine, line |-> line,
   message |-> message, suggestion |-> fix]

(***************************************************************************)
(* Tier 1: /Line\s+(\d+):\s+(\w+)\s+(.+?)\s+\|\s+Fix:\s+(.+)/gi            *)
(***************************************************************************)
\* After a description ending at token e come "|", "Fix:" and at least one
\* more token, each after whitespace.
FixTail(text, e) ==
  LET p == NextTok(text, e) IN
  IF p = 0 \/ text[p] # "|" THEN 0
  ELSE LET f == NextTok(text, p) IN
       IF f = 0 \/ Lower(text[f]) # "fix:" THEN 0
       ELSE NextTok(text, f)

\* One attempt of the pattern with "Line" at token i.  The description is
\* lazy: it ends at the first token of its line after which the rest of the
\* pattern matches.  The fix is greedy: it runs to the end of its line.
StrictMatchAt(text, i) ==
  LET a == NextTok(text, i)
      b == IF a = 0 THEN 0 ELSE NextTok(text, a)
      c == IF b = 0 THEN 0 ELSE NextTok(text, b)
      ends == IF c = 0 THEN {}
              ELSE {e \in c..LineEnd(text, c) : FixTail(text, e) # 0}
  IN
  IF /\ IsLineWord(text[i])
     /\ a # 0 /\ IsNumColon(text[a])
     /\ b # 0 /\ IsWord(text[b])
     /\ ends # {}
  THEN LET e == CHOOSE x \in ends : \A y \in ends : x <= y
           g == FixTail(text, e)
       IN [ok |-> TRUE,
           lineNumber |-> LeadingNumber(text[a]),
           type |-> Lower(text[b]),
           description |-> SubSeq(text, c, e),
           fix |-> SubSeq(text, g, LineEnd(text, g)),
           last |-> LineEnd(text, g)]
  ELSE [ok |-> FALSE]

\* The severity table of the strict-grammar loop.
StrictSeverity(type) ==
  IF type = "security" \/ type = "bug" THEN "high"
  ELSE IF type = "style" THEN "low"
  ELSE IF type = "performance" \/ type = "optimization" THEN "medium"
  ELSE "medium"

\* The loop body clamping an out-of-range line number to the last line.
StrictPush_Clamped(m, lines) ==
  << Suggestion(m.type, StrictSeverity(m.type), TRUE,
                IF m.lineNumber > 0 /\ m.lineNumber <= Len(lines)
                THEN m.lineNumber ELSE Len(lines),
                m.description, m.fix) >>

\* The loop body with the upper bound of the line check forgotten.
StrictPush_NoUpperBound(m, lines) ==
  IF m.lineNumber > 0
  THEN << Suggestion(m.type, StrictSeverity(m.type), TRUE, m.lineNumber,
                     m.description, m.fix) >>
  ELSE << >>

\* The body of the while loop for one match: the suggestions it pushes.
StrictPush(m, lines) ==
  IF m.lineNumber > 0 /\ m.lineNumber <= Len(lines)
  THEN << Suggestion(m.type, StrictSeverity(m.type), TRUE, m.lineNumber,
                     m.description, m.fix) >>
  ELSE << >>

\* The while loop over issuePattern.exec: matches are found left to right,
\* each search starting after the previous match.
RECURSIVE StrictScan(_, _, _)
StrictScan(text, i, lines) ==
  IF i > Len(text) THEN << >>
  ELSE LET m == StrictMatchAt(text, i) IN
       IF m.ok THEN StrictPush(m, lines) \o StrictScan(text, m.last + 1, lines)
       ELSE StrictScan(text, i + 1, lines)

StrictTier(aiResponse, code) == StrictScan(aiResponse, 1, SplitLines(code))

(***************************************************************************)
(* Tier 2: the fallback parsing of sections.                               *)
(***************************************************************************)
\* parseInt of something that is no number.  Every comparison with it is
\* false; it is kept as a negative number, which fails lineNumber > 0.
NaN == 0 - 1

\* The token is \d+\. , an ordered-list marker.
IsNumDot(tok) == tok \in {"1.", "2."}

\* The token starts with # .
IsHashes(tok) == tok \in {"#", "##"}

\* /\n(?=#{1,6}\s|\d+\.\s|\*\s|\-\s|###|##|#)/ matches the newline at token i:
\* the next token starts with # , or is a list marker followed by whitespace.
IsSplitPoint(text, i) ==
  /\ text[i] = NL
  /\ i + 1 <= Len(text)
  /\ \/ IsHashes(text[i + 1])
     \/ /\ (text[i + 1] \in {"*", "-"} \/ IsNumDot(text[i + 1]))
        /\ i + 2 <= Len(text)

\* aiResponse.split(...): the pieces between the split points.
RECURSIVE SplitSections(_)
SplitSections(text) ==
  LET points == {i \in 1..Len(text) : IsSplitPoint(text, i)} IN
  IF points = {} THEN << text >>
  ELSE LET k == CHOOSE x \in points : \A y \in points : x <= y IN
       << SubSeq(text, 1, k - 1) >>
         \o SplitSections(SubSeq(text, k + 1, Len(text)))

\* String.prototype.trim: leading and trailing whitespace removed.
RECURSIVE Trim(_)
Trim(text) ==
  IF text = << >> THEN text
  ELSE IF Head(text) = NL THEN Trim(Tail(text))
  ELSE IF text[Len(text)] = NL THEN Trim(SubSeq(text, 1, Len(text) - 1))
  ELSE text

\* Whitespace at the start removed ( \s* after a marker).
RECURSIVE DropLeadingNL(_)
DropLeadingNL(text) ==
  IF text # << >> /\ Head(text) = NL THEN DropLeadingNL(Tail(text)) ELSE text

\* String length in characters: the characters of the tokens, one per
\* newline, and one space between two neighbouring tokens.
RECURSIVE CharLen(_)
CharLen(text) ==
  IF text = << >> THEN 0
  ELSE LET t == Head(text)
           own == IF t = NL THEN 1 ELSE Len(t)
           gap == IF Len(text) >= 2 /\ t # NL /\ text[2] # NL THEN 1 ELSE 0
       IN own + gap + CharLen(Tail(text))

\* parseInt(match.split(' ')[1]) for the match of /line\s+(\d+)/ at token i
\* whose digits are in token j: the piece after the first space, which is
\* there only when one space separates the two tokens.
LineRefValue(section, i, j) ==
  IF j = i + 1 THEN LeadingNumber(section[j]) ELSE NaN

\* section.match(/line\s+(\d+)/gi) mapped to numbers, in order.
RECURSIVE LineRefs(_, _)
LineRefs(section, i) ==
  IF i > Len(section) THEN << >>
  ELSE LET j == NextTok(section, i) IN
       IF IsLineWord(section[i]) /\ j # 0 /\ LeadingNumber(section[j]) >= 0
       THEN << LineRefValue(section, i, j) >> \o LineRefs(section, j + 1)
       ELSE LineRefs(section, i + 1)

\* analyzeSectionType deciding the escalation on the first line of the
\* section only.
analyzeSectionType_FirstLineOnly(section) ==
  LET body == DropLeadingNL(section)
      first == IF body = << >> THEN body ELSE SubSeq(body, 1, LineEnd(body, 1))
      escalated == Includes(first, "critical") \/ Includes(first, "severe")
  IN
  IF \/ Includes(section, "security") \/ Includes(section, "vulnerability")
     \/ Includes(section, "injection") \/ Includes(section, "xss")
     \/ Includes(section, "csrf") \/ Includes(section, "authentication")
  THEN [type |-> "security", severity |-> IF escalated THEN "critical" ELSE "high"]
  ELSE IF \/ Includes(section, "bug") \/ Includes(section, "error")
          \/ Includes(section, "undefined") \/ Includes(section, "null")
          \/ Includes(section, "exception") \/ Includes(section, "crash")
          \/ Includes(section, "unterminated") \/ Includes(section, "missing")
  THEN [type |-> "bug", severity |-> IF escalated THEN "critical" ELSE "high"]
  ELSE IF \/ Includes(section, "performance") \/ Includes(section, "slow")
          \/ Includes(section, "inefficient") \/ Includes(section, "optimize")
          \/ Includes(section, "bottleneck") \/ Includes(section, "memory")
  THEN [type |-> "performance", severity |-> "medium"]
  ELSE IF \/ Includes(section, "optimization") \/ Includes(section, "improve")
          \/ Includes(section, "better") \/ Includes(section, "refactor")
  THEN [type |-> "optimization", severity |-> "medium"]
  ELSE [type |-> "style", severity |-> "low"]

\* analyzeSectionType testing the bug keywords before the security keywords.
analyzeSectionType_BugFirst(section) ==
  IF \/ Includes(section, "bug") \/ Includes(section, "error")
     \/ Includes(section, "undefined") \/ Includes(section, "null")
     \/ Includes(section, "exception") \/ Includes(section, "crash")
     \/ Includes(section, "unterminated") \/ Includes(section, "missing")
  THEN [type |-> "bug",
        severity |-> IF Includes(section, "critical") \/ Includes(section, "severe")
                     THEN "critical" ELSE "high"]
  ELSE IF \/ Includes(section, "security") \/ Includes(section, "vulnerability")
          \/ Includes(section, "injection") \/ Includes(section, "xss")
          \/ Includes(section, "csrf") \/ Includes(section, "authentication")
  THEN [type |-> "security",
        severity |-> IF Includes(section, "critical") \/ Includes(section, "severe")
                     THEN "critical" ELSE "high"]
  ELSE IF \/ Includes(section, "performance") \/ Includes(section, "slow")
          \/ Includes(section, "inefficient") \/ Includes(section, "optimize")
          \/ Includes(section, "bottleneck") \/ Includes(section, "memory")
  THEN [type |-> "performance", severity |-> "medium"]
  ELSE IF \/ Includes(section, "optimization") \/ Includes(section, "improve")
          \/ Includes(section, "better") \/ Includes(section, "refactor")
  THEN [type |-> "optimization", severity |-> "medium"]
  ELSE [type |-> "style", severity |-> "low"]

analyzeSectionType(section) ==
  IF \/ Includes(section, "security") \/ Includes(section, "vulnerability")
     \/ Includes(section, "injection") \/ Includes(section, "xss")
     \/ Includes(section, "csrf") \/ Includes(section, "authentication")
  THEN [type |-> "security",
        severity |-> IF Includes(section, "critical") \/ Includes(section, "severe")
                     THEN "critical" ELSE "high"]
  ELSE IF \/ Includes(section, "bug") \/ Includes(section, "error")
          \/ Includes(section, "undefined") \/ Includes(section, "null")
          \/ Includes(section, "exception") \/ Includes(section, "crash")
          \/ Includes(section, "unterminated") \/ Includes(section, "missing")
  THEN [type |-> "bug",
        severity |-> IF Includes(section, "critical") \/ Includes(section, "severe")
                     THEN "critical" ELSE "high"]
  ELSE IF \/ Includes(section, "performance") \/ Includes(section, "slow")
          \/ Includes(section, "inefficient") \/ Includes(section, "optimize")
          \/ Includes(section, "bottleneck") \/ Includes(section, "memory")
  THEN [type |-> "performance", severity |-> "medium"]
  ELSE IF \/ Includes(section, "optimization") \/ Includes(section, "improve")
          \/ Includes(section, "better") \/ Includes(section, "refactor")
  THEN [type |-> "optimization", severity |-> "medium"]
  ELSE [type |-> "style", severity |-> "low"]

\* .replace(/\*(.*?)\*/g, '$1'): two * on one line are removed, pair by
\* pair from the left.  (The vocabulary has no ** and no backtick.)
RECURSIVE StripEmphasis(_, _)
StripEmphasis(text, i) ==
  IF i > Len(text) THEN text
  ELSE IF text[i] # "*" THEN StripEmphasis(text, i + 1)
  ELSE LET closers == {j \in (i + 1)..LineEnd(text, i) : text[j] = "*"} IN
       IF closers = {} THEN StripEmphasis(text, i + 1)
       ELSE LET j == CHOOSE x \in closers : \A y \in closers : x <= y IN
            StripEmphasis(SubSeq(text, 1, i - 1) \o SubSeq(text, i + 1, j - 1)
                            \o SubSeq(text, j + 1, Len(text)), j - 1)

IsStar(tok) == tok = "*"

IsDash(tok) == tok = "-"

\* .replace(/^MARK\s*/, '') for a marker that is a whole token; marked says
\* whether the text starts with the marker.
StripMarker(text, marked) ==
  IF marked THEN DropLeadingNL(Tail(text)) ELSE text

\* /^(Issue|Problem|Concern|Suggestion|Error|Bug)[:\s]+/i on a trimmed line.
DescriptionPrefixes == {"issue", "problem", "concern", "suggestion", "error", "bug"}

StripPrefix(line) ==
  IF Len(line) >= 2 /\ Lower(line[1]) \in DescriptionPrefixes
  THEN Tail(line) ELSE line

MaxDescription == 120

\* description.substring(0, 120) + '...': the tokens that fit whole, then
\* the ellipsis.
RECURSIVE Fitting(_, _)
Fitting(text, n) ==
  IF n = 0 THEN << >>
  ELSE IF CharLen(SubSeq(text, 1, n)) <= MaxDescription THEN SubSeq(text, 1, n)
  ELSE Fitting(text, n - 1)

Truncate(text) ==
  IF CharLen(text) > MaxDescription
  THEN Fitting(text, Len(text)) \o << "..." >> ELSE text

extractIssueDescription(section) ==
  LET d0 == StripEmphasis(section, 1)
      d1 == StripMarker(d0, d0 # << >> /\ IsHashes(Head(d0)))
      d2 == StripMarker(d1, d1 # << >> /\ IsNumDot(Head(d1)))
      d3 == StripMarker(d2, d2 # << >> /\ IsStar(Head(d2)))
      d4 == StripMarker(d3, d3 # << >> /\ IsDash(Head(d3)))
      body == DropLeadingNL(d4)
      first == IF body = << >> THEN d4
               ELSE StripPrefix(SubSeq(body, 1, LineEnd(body, 1)))
  IN Truncate(first)

\* The lead-in words of the three fix patterns, as the tokens that end
\* with one of them and then have nothing but colons.
FixLeadIns ==
  << {"fix", "fix:", "solution", "solution:", "suggestion", "suggestion:",
      "recommendation", "recommendation:"},
     {"should", "should:", "could", "could:", "consider", "consider:"},
     {"use", "use:", "try", "try:", "replace", "replace:"} >>

MinFixLength == 5

\* section.match(pattern) for pattern p: the leftmost lead-in that has
\* text after it; the capture is that text up to the end of its line.
FixCapture(section, p) ==
  LET starts == {i \in 1..Len(section) :
                   Lower(section[i]) \in FixLeadIns[p] /\ NextTok(section, i) # 0}
  IN IF starts = {} THEN << >>
     ELSE LET i == CHOOSE x \in starts : \A y \in starts : x <= y
              j == NextTok(section, i)
          IN SubSeq(section, j, LineEnd(section, j))

\* The for loop over fixPatterns; null is << >>.
RECURSIVE FixFrom(_, _)
FixFrom(section, p) ==
  IF p > Len(FixLeadIns) THEN << >>
  ELSE LET c == FixCapture(section, p) IN
       IF c # << >> /\ CharLen(c) > MinFixLength THEN c
       ELSE FixFrom(section, p + 1)

extractSuggestedFix(section) == FixFrom(section, 1)

MinSectionLength == 20

\* lineNumbers.forEach: one suggestion per referenced line within the code.
RECURSIVE SectionPush(_, _, _, _, _)
SectionPush(nums, lines, kind, message, fix) ==
  IF nums = << >> THEN << >>
  ELSE LET lineNumber == Head(nums) IN
       (IF lineNumber > 0 /\ lineNumber <= Len(lines)
        THEN << Suggestion(kind.type, kind.severity, TRUE, lineNumber, message, fix) >>
        ELSE << >>)
         \o SectionPush(Tail(nums), lines, kind, message, fix)

\* The body of sections.forEach for one section.
SectionSuggestions(section, lines) ==
  IF CharLen(Trim(section)) < MinSectionLength THEN << >>
  ELSE LET lineNumbers == LineRefs(section, 1) IN
       IF Len(lineNumbers) > 0
       THEN SectionPush(lineNumbers, lines, analyzeSectionType(section),
                        extractIssueDescription(section),
                        extractSuggestedFix(section))
       ELSE << >>

RECURSIVE SectionsScan(_, _)
SectionsScan(sections, lines) ==
  IF sections = << >> THEN << >>
  ELSE SectionSuggestions(Head(sections), lines)
         \o SectionsScan(Tail(sections), lines)

HeuristicTier(aiResponse, code) ==
  SectionsScan(SplitSections(aiResponse), SplitLines(code))

\* The general suggestion pushed when nothing was parsed.
GeneralSuggestion ==
  Suggestion("style", "low", FALSE, 0, << "Code", "review", "completed" >>, << >>)

\* parseAIResponse without its last resort, the general suggestion.
parseAIResponse_NoGeneral(aiResponse, code) ==
  LET strict == StrictTier(aiResponse, code) IN
  IF Len(strict) # 0 THEN strict ELSE HeuristicTier(aiResponse, code)

\* parseAIResponse running the heuristic tier whatever the strict-grammar
\* tier produced.
parseAIResponse_Mixed(aiResponse, code) ==
  LET all == StrictTier(aiResponse, code) \o HeuristicTier(aiResponse, code) IN
  IF Len(all) # 0 THEN all ELSE << GeneralSuggestion >>

parseAIResponse(aiResponse, code) ==
  LET strict == StrictTier(aiResponse, code) IN
  IF Len(strict) # 0 THEN strict
  ELSE LET fallback == HeuristicTier(aiResponse, code) IN
       IF Len(fallback) # 0 THEN fallback
       ELSE << GeneralSuggestion >>

\* extractSummary: the text split at the sentence marks (the token "." is
\* the only one of the vocabulary), the first two pieces joined by a mark,
\* trimmed, and closed by a mark.
RECURSIVE SplitSentences(_)
SplitSentences(text) ==
  LET marks == {i \in 1..Len(text) : text[i] = "."} IN
  IF marks = {} THEN << text >>
  ELSE LET k == CHOOSE x \in marks : \A y \in marks : x <= y IN
       << SubSeq(text, 1, k - 1) >>
         \o SplitSentences(SubSeq(text, k + 1, Len(text)))

extractSummary(aiResponse) ==
  LET sentences == SplitSentences(aiResponse)
      joined == IF Len(sentences) >= 2
                THEN sentences[1] \o << "." >> \o sentences[2]
                ELSE sentences[1]
  IN Trim(joined) \o << "." >>

(***************************************************************************)
(* generateCodeReview, given what the completion call did:                 *)
(* [ok |-> FALSE] when env.AI.run threw, otherwise                          *)
(* [ok |-> TRUE, hasResponse |-> ..., response |-> text].  Reading         *)
(* aiResponse.response of an answer without one gives undefined, and       *)
(* parseAIResponse(undefined, code) throws inside the try block.           *)
(***************************************************************************)
\* Confidence is kept in hundredths: 85 is 0.85.
SuccessConfidence == 85

FallbackSuggestion ==
  Suggestion("bug", "medium", FALSE, 0,
             << "Unable", "to", "generate", "AI", "review", "at", "this", "time" >>,
             << >>)

FallbackReview ==
  [suggestions |-> << FallbackSuggestion >>,
   summary |-> << "AI", "review", "service", "is", "temporarily", "unavailable." >>,
   confidence |-> 0]

\* generateCodeReview whose catch block answers like a successful review
\* of an empty text.
generateCodeReview_NoFallback(completion, code) ==
  [suggestions |-> parseAIResponse(completion.response, code),
   summary |-> extractSummary(completion.response),
   confidence |-> SuccessConfidence]

generateCodeReview(completion, code) ==
  IF completion.ok /\ completion.hasResponse
  THEN [suggestions |-> parseAIResponse(completion.response, code),
        summary |-> extractSummary(completion.response),
        confidence |-> SuccessConfidence]
  ELSE FallbackReview

(***************************************************************************)
(* Inputs.  A model text is up to MaxTextLines lines, each one of the      *)
(* line templates below, joined by newlines.  A code is 1..MaxCodeLines    *)
(* lines (the split of any string has at least one piece).                 *)
(***************************************************************************)
LongWord == "unused_variable_name_in_scope"

Fix == << "|", "Fix:", "use", "foo" >>

LineTemplates ==
  { << "Line", "1:", "BUG", "foo" >> \o Fix,
    << "Line", "2:", "SECURITY", "critical", "injection" >> \o Fix,
    << "Line", "9:", "STYLE", "foo" >> \o Fix,
    << "Line", "0:", "BUG", "foo" >> \o Fix,
    << "Line", "1:", "WARNING", "foo" >> \o Fix,
    << "Line", "2:", "PERFORMANCE", "slow" >> \o Fix,
    << "line", "3:", "optimization", "improve", "|", "fix:", "foo" >>,
    << "Line", "1:", "BUG", "missing", LongWord >>,
    << "##", "security", "injection", "on", "line", "1" >>,
    << "critical" >>,
    << "-", "missing", "foo", "near", "line", "2", "line", "9" >>,
    << "#", LongWord >>,
    << "*", "slow", "loop", "on", "Line", "2:", "should", "use", LongWord >>,
    << "foo", ".", "foo" >>,
    << "-", "severe", "bug", "reported", "at", "line" >>,
    << "2", "style" >> }

RECURSIVE TextsOf(_)
TextsOf(n) ==
  IF n = 0 THEN { << >> }
  ELSE IF n = 1 THEN LineTemplates
  ELSE { t \o << NL >> \o l : t \in TextsOf(n - 1), l \in LineTemplates }

Texts == UNION { TextsOf(n) : n \in 0..MaxTextLines }

Codes == { [i \in 1..n |-> "stmt;"] : n \in 1..MaxCodeLines }

Completions ==
  { [ok |-> FALSE, hasResponse |-> FALSE, response |-> << >>],
    [ok |-> TRUE, hasResponse |-> FALSE, response |-> << >>] }
    \cup { [ok |-> TRUE, hasResponse |-> TRUE, response |-> t] : t \in Texts }

(***************************************************************************)
(* The agent.  One ReviewAgent instance exists per session id (the router  *)
(* forwards a request to idFromName(sessionId)); sessionData is the field  *)
(* of that instance.  A fetch is one invocation of the instance's fetch    *)
(* handler; fetches of one instance interleave at every await.  The D1     *)
(* tables user_sessions and conversation_history are shared.               *)
(***************************************************************************)
MaxRequests == 2
MaxClock == 1

SessionIds == {"s1", "s2"}

\* The fetch invocations that may be in flight.
Slots == {"a"}

\* this.sessionData = null
NoSession == "null"

\* LIMIT 10 of the history query.
HistoryLimit == 10

Language == "javascript"

ChatMessage == << "why", "line", "1" >>

\* What the completion service answers in the agent's runs.
AgentTexts ==
  { << >>,
    << "Line", "1:", "BUG", "foo" >> \o Fix }

\* The code submitted in the agent's runs.
AgentCode == << "stmt;", "stmt;" >>

AgentCompletions ==
  { [ok |-> FALSE, hasResponse |-> FALSE, response |-> << >>],
    [ok |-> TRUE, hasResponse |-> FALSE, response |-> << >>] }
    \cup { [ok |-> TRUE, hasResponse |-> TRUE, response |-> t] : t \in AgentTexts }

Apology ==
  << "I", "apologize,", "but", "I", "encountered", "an", "issue", "generating",
     "a", "response", ".", "Please", "try", "again", "." >>

VARIABLES in_completion, in_code, parsed, review,
          user_sessions, conversation_history, clock, sessionData, fetches, nextId,
          code_reviews, code_suggestions, router

parseVars == << in_completion, in_code, parsed, review >>

\* parsed and review before the functions have run.
NotRun == << >>

\* The tables code_reviews and code_suggestions of the schema.
reviewTables == << code_reviews, code_suggestions >>

agentVars == << user_sessions, conversation_history, clock, sessionData, fetches, nextId,
                code_reviews, code_suggestions >>

vars == << in_completion, in_code, parsed, review,
           user_sessions, conversation_history, clock, sessionData, fetches, nextId,
           code_reviews, code_suggestions, router >>

\* A field of a request body: missing, the empty string, or a value.
Absent == "undefined"

Empty == ""

Present == "value"

FieldValues == {Absent, Empty, Present}

\* What the agent's fetch can answer to a forwarded request: a JSON result
\* (status 200), a JSON error body with status 500 (the catch blocks), a
\* plain-text body with status 405 or 404, or no answer (the call throws).
NoAnswer == [status |-> 0, body |-> "none"]

AgentAnswers ==
  { [status |-> 200, body |-> "json"],
    [status |-> 500, body |-> "json-error"],
    [status |-> 405, body |-> "text"],
    [status |-> 404, body |-> "text"],
    [status |-> 0, body |-> "throws"] }

\* The router before a request has reached it.
NoRoute ==
  [pc |-> "none", path |-> "none", code |-> Absent, language |-> Absent,
   sessionId |-> Absent, userId |-> Absent, message |-> Absent,
   forwarded |-> FALSE, agent |-> NoAnswer, status |-> 0, body |-> "none"]

NoReview == [suggestions |-> << >>, summary |-> << >>, confidence |-> 0]

NoPrompt == [kind |-> "none", code |-> << >>, history |-> << >>, message |-> << >>]

NoResponse == [status |-> 0, review |-> NoReview, response |-> << >>]

Idle ==
  [pc |-> "idle", kind |-> "none", id |-> 0, at |-> 0, sessionId |-> NoSession,
   loaded |-> FALSE,
   code |-> << >>, message |-> << >>, history |-> << >>, prompt |-> NoPrompt,
   completion |-> [ok |-> FALSE, hasResponse |-> FALSE, response |-> << >>],
   review |-> NoReview, reply |-> << >>, stored |-> << >>,
   response |-> NoResponse]

\* A fetch that answers an error when one of its inserts failed.
Returned_AbortOnFailure(r, stored, response) ==
  [Idle EXCEPT !.pc = "done", !.kind = r.kind, !.id = r.id, !.at = r.at,
               !.sessionId = r.sessionId, !.code = r.code,
               !.message = r.message, !.completion = r.completion,
               !.stored = stored,
               !.response = IF \A i \in 1..Len(stored) : stored[i]
                            THEN response
                            ELSE [status |-> 500, review |-> NoReview,
                                  response |-> << >>]]

\* A fetch that has returned `response`: its locals are gone; what the
\* request was, what the completion call did and which of its inserts
\* succeeded stay on record.
Returned(r, stored, response) ==
  [Idle EXCEPT !.pc = "done", !.kind = r.kind, !.id = r.id, !.at = r.at,
               !.sessionId = r.sessionId, !.code = r.code,
               !.message = r.message, !.completion = r.completion,
               !.stored = stored, !.response = response]

\* A ConversationMessage as the row storeConversationMessage inserts.
Row(id, session, role, content, timestamp, codeContext) ==
  [id |-> id, session_id |-> session, role |-> role, content |-> content,
   timestamp |-> timestamp, code_context |-> codeContext]

\* loadSessionData writing a sessionData field that all instances share.
loadSessionData_AllInstances(sessionId, dbOk) ==
  IF dbOk /\ sessionId \in DOMAIN user_sessions
  THEN [s \in SessionIds |-> sessionId]
  ELSE sessionData

\* loadSessionData: the field is set only when the query answers a row.
loadSessionData(sessionId, dbOk) ==
  IF dbOk /\ sessionId \in DOMAIN user_sessions
  THEN [sessionData EXCEPT ![sessionId] = sessionId]
  ELSE sessionData

\* storeConversationMessage of the instance of session `agent`: the row is
\* bound to this.sessionData?.sessionId; binding undefined, or a failing
\* statement, throws, which is caught and logged.
insertSucceeds(agent, dbOk) == dbOk /\ sessionData[agent] # NoSession

\* storeConversationMessage binding the wrong value to the role column.
storeConversationMessage_RoleLost(agent, id, role, content, codeContext, dbOk) ==
  IF insertSucceeds(agent, dbOk)
  THEN Append(conversation_history,
              Row(id, sessionData[agent], "user", content, clock, codeContext))
  ELSE conversation_history

\* storeConversationMessage of instances that share one sessionData field:
\* the row is bound to whichever session has been loaded.
storeConversationMessage_SharedSession(agent, id, role, content, codeContext, dbOk) ==
  IF insertSucceeds(agent, dbOk)
  THEN Append(conversation_history,
              Row(id, CHOOSE s \in SessionIds : sessionData[s] # NoSession,
                  role, content, clock, codeContext))
  ELSE conversation_history

storeConversationMessage(agent, id, role, content, codeContext, dbOk) ==
  IF insertSucceeds(agent, dbOk)
  THEN Append(conversation_history,
              Row(id, sessionData[agent], role, content, clock, codeContext))
  ELSE conversation_history

\* SELECT ... WHERE session_id = ? ORDER BY timestamp DESC LIMIT 10 over the
\* rows with the indices in `rest`: every order the sort allows (rows of
\* equal timestamp come in any order).
RECURSIVE DescOrders(_, _)
DescOrders(rest, limit) ==
  IF rest = {} \/ limit = 0 THEN { << >> }
  ELSE LET latest == {i \in rest : \A j \in rest :
                        conversation_history[j].timestamp
                          <= conversation_history[i].timestamp}
       IN UNION { { << conversation_history[i] >> \o t :
                      t \in DescOrders(rest \ {i}, limit - 1) } : i \in latest }

\* loadConversationHistory whose query has no LIMIT.
loadConversationHistory_NoLimit(sessionId, dbOk) ==
  IF dbOk
  THEN DescOrders({i \in 1..Len(conversation_history) :
                     conversation_history[i].session_id = sessionId},
                  Len(conversation_history))
  ELSE { << >> }

\* loadConversationHistory: the possible results; [] when the query fails.
loadConversationHistory(sessionId, dbOk) ==
  IF dbOk
  THEN DescOrders({i \in 1..Len(conversation_history) :
                     conversation_history[i].session_id = sessionId},
                  HistoryLimit)
  ELSE { << >> }

\* conversationHistory.map(msg => `${msg.role}: ${msg.content}`)
HistoryLines(history) ==
  [i \in 1..Len(history) |-> << history[i].role, history[i].content >>]

\* The messages generateCodeReview sends to the completion service.
ReviewPrompt(code) ==
  [kind |-> "review", code |-> code, history |-> << >>, message |-> << >>]

\* The messages generateChatResponse sends to the completion service.
ChatPrompt(history, message) ==
  [kind |-> "chat", code |-> << >>, history |-> HistoryLines(history),
   message |-> message]

\* generateChatResponse without its catch block: nothing is returned when
\* the call throws.
ChatReply_NoCatch(completion) ==
  IF ~completion.ok THEN << >>
  ELSE IF completion.hasResponse /\ completion.response # << >>
  THEN completion.response ELSE Apology

\* generateChatResponse returning the summary of the text, as a review does.
ChatReply_Summarised(completion) ==
  IF completion.ok /\ completion.hasResponse /\ completion.response # << >>
  THEN extractSummary(completion.response) ELSE Apology

\* response.response || apology, and the apology when the call throws.
ChatReply(completion) ==
  IF completion.ok /\ completion.hasResponse /\ completion.response # << >>
  THEN completion.response ELSE Apology

ReviewUserTurn == << "Code", "review", "request", "for", Language, "code" >>

\* The session created by the router before the first request.
ExistingSessions == {"s1"}

\* The row of user_sessions the router inserts at time t.
SessionRow(t) == [created_at |-> t, last_active |-> t]

AgentInit ==
  /\ user_sessions = [s \in ExistingSessions |-> SessionRow(0)]
  /\ conversation_history = << >>
  /\ clock = 0
  /\ sessionData = [s \in SessionIds |-> NoSession]
  /\ fetches = [f \in Slots |-> Idle]
  /\ nextId = 1
  /\ code_reviews = << >>
  /\ code_suggestions = << >>

Init ==
  /\ in_completion = [ok |-> FALSE, hasResponse |-> FALSE, response |-> << >>]
  /\ in_code = << "stmt;" >>
  /\ parsed = NotRun
  /\ review = NotRun
  /\ AgentInit
  /\ router = NoRoute

Free(f) == fetches[f].pc \in {"idle", "done"}

\* Time passes.  (Between two requests it passes as well; nothing reads the
\* clock before the next request has started, so those steps are taken
\* after its start.)
Tick ==
  /\ clock < MaxClock
  /\ \E f \in DOMAIN fetches : ~Free(f)
  /\ clock' = clock + 1
  /\ UNCHANGED << user_sessions, conversation_history, sessionData, fetches, nextId >>
  /\ UNCHANGED << parseVars, reviewTables, router >>

\* handleCodeReview, up to the first await: the request is read.
StartReview(f, s, code) ==
  /\ Free(f)
  /\ nextId <= MaxRequests
  /\ fetches' = [fetches EXCEPT ![f] =
       [Idle EXCEPT !.pc = "loadSession", !.kind = "review", !.id = nextId,
                    !.at = clock,
                    !.sessionId = s, !.code = code]]
  /\ nextId' = nextId + 1
  /\ UNCHANGED << user_sessions, conversation_history, clock, sessionData >>
  /\ UNCHANGED << parseVars, reviewTables, router >>

\* handleChat, up to the first await.
StartChat(f, s, message) ==
  /\ Free(f)
  /\ nextId <= MaxRequests
  /\ fetches' = [fetches EXCEPT ![f] =
       [Idle EXCEPT !.pc = "loadSession", !.kind = "chat", !.id = nextId,
                    !.at = clock,
                    !.sessionId = s, !.message = message]]
  /\ nextId' = nextId + 1
  /\ UNCHANGED << user_sessions, conversation_history, clock, sessionData >>
  /\ UNCHANGED << parseVars, reviewTables, router >>

\* A review handler that stores its turns right after the session load,
\* before the history is loaded and the completion call is made.
LoadSession_StoreFirst(f, dbOk) ==
  LET r == fetches[f] IN
  /\ r.pc = "loadSession"
  /\ sessionData' = loadSessionData(r.sessionId, dbOk)
  /\ fetches' = [fetches EXCEPT
       ![f].pc = "storeUser",
       ![f].loaded = dbOk /\ r.sessionId \in DOMAIN user_sessions]
  /\ UNCHANGED << user_sessions, conversation_history, clock, nextId >>
  /\ UNCHANGED << parseVars, reviewTables, router >>

\* await this.loadSessionData(request.sessionId), of either handler.
LoadSession(f, dbOk) ==
  LET r == fetches[f] IN
  /\ r.pc = "loadSession"
  /\ sessionData' = loadSessionData(r.sessionId, dbOk)
  /\ fetches' = [fetches EXCEPT
       ![f].pc = IF r.kind = "review" THEN "loadHistory" ELSE "storeUser",
       ![f].loaded = dbOk /\ r.sessionId \in DOMAIN user_sessions]
  /\ UNCHANGED << user_sessions, conversation_history, clock, nextId >>
  /\ UNCHANGED << parseVars, reviewTables, router >>

\* generateCodeReview: await this.loadConversationHistory(...), and the
\* prompt built after it.
ReviewLoadHistory(f, dbOk) ==
  LET r == fetches[f] IN
  /\ r.kind = "review" /\ r.pc = "loadHistory"
  /\ \E h \in loadConversationHistory(r.sessionId, dbOk) :
       fetches' = [fetches EXCEPT ![f].pc = "complete", ![f].history = h,
                                  ![f].prompt = ReviewPrompt(r.code)]
  /\ UNCHANGED << user_sessions, conversation_history, clock, sessionData, nextId >>
  /\ UNCHANGED << parseVars, reviewTables, router >>

\* generateCodeReview: await this.env.AI.run(...), then the parsing or the
\* catch block.
ReviewComplete(f, completion) ==
  LET r == fetches[f] IN
  /\ r.kind = "review" /\ r.pc = "complete"
  /\ fetches' = [fetches EXCEPT ![f].pc = "storeUser",
                                ![f].completion = completion,
                                ![f].review = generateCodeReview(completion, r.code)]
  /\ UNCHANGED << user_sessions, conversation_history, clock, sessionData, nextId >>
  /\ UNCHANGED << parseVars, reviewTables, router >>

\* handleCodeReview: the first await this.storeConversationMessage(...).
ReviewStoreUser(f, dbOk) ==
  LET r == fetches[f] IN
  /\ r.kind = "review" /\ r.pc = "storeUser"
  /\ conversation_history' =
       storeConversationMessage(r.sessionId, << r.id, "user" >>, "user",
                                ReviewUserTurn, r.code, dbOk)
  /\ fetches' = [fetches EXCEPT ![f].pc = "storeAssistant",
       ![f].stored = Append(r.stored, insertSucceeds(r.sessionId, dbOk))]
  /\ UNCHANGED << user_sessions, clock, sessionData, nextId >>
  /\ UNCHANGED << parseVars, reviewTables, router >>

\* handleCodeReview: the second store, and the response returned after it.
ReviewStoreAssistant(f, dbOk) ==
  LET r == fetches[f] IN
  /\ r.kind = "review" /\ r.pc = "storeAssistant"
  /\ conversation_history' =
       storeConversationMessage(r.sessionId, << r.id, "assistant" >>, "assistant",
                                r.review.summary, << >>, dbOk)
  /\ fetches' = [fetches EXCEPT ![f] =
       Returned(r, Append(r.stored, insertSucceeds(r.sessionId, dbOk)),
                [status |-> 200, review |-> r.review, response |-> << >>])]
  /\ UNCHANGED << user_sessions, clock, sessionData, nextId >>
  /\ UNCHANGED << parseVars, reviewTables, router >>

\* handleChat: the store of the user message.
ChatStoreUser(f, dbOk) ==
  LET r == fetches[f] IN
  /\ r.kind = "chat" /\ r.pc = "storeUser"
  /\ conversation_history' =
       storeConversationMessage(r.sessionId, << r.id, "user" >>, "user",
                                r.message, << >>, dbOk)
  /\ fetches' = [fetches EXCEPT ![f].pc = "loadHistory",
       ![f].stored = Append(r.stored, insertSucceeds(r.sessionId, dbOk))]
  /\ UNCHANGED << user_sessions, clock, sessionData, nextId >>
  /\ UNCHANGED << parseVars, reviewTables, router >>

\* generateChatResponse: await this.loadConversationHistory(...), and the
\* prompt built from it.
ChatLoadHistory(f, dbOk) ==
  LET r == fetches[f] IN
  /\ r.kind = "chat" /\ r.pc = "loadHistory"
  /\ \E h \in loadConversationHistory(r.sessionId, dbOk) :
       fetches' = [fetches EXCEPT ![f].pc = "complete", ![f].history = h,
                                  ![f].prompt = ChatPrompt(h, r.message)]
  /\ UNCHANGED << user_sessions, conversation_history, clock, sessionData, nextId >>
  /\ UNCHANGED << parseVars, reviewTables, router >>

\* generateChatResponse: await this.env.AI.run(...), and what is returned.
ChatComplete(f, completion) ==
  LET r == fetches[f] IN
  /\ r.kind = "chat" /\ r.pc = "complete"
  /\ fetches' = [fetches EXCEPT ![f].pc = "storeAssistant",
                                ![f].completion = completion,
                                ![f].reply = ChatReply(completion)]
  /\ UNCHANGED << user_sessions, conversation_history, clock, sessionData, nextId >>
  /\ UNCHANGED << parseVars, reviewTables, router >>

\* handleChat: the store of the reply, and the response returned after it.
ChatStoreAssistant(f, dbOk) ==
  LET r == fetches[f] IN
  /\ r.kind = "chat" /\ r.pc = "storeAssistant"
  /\ conversation_history' =
       storeConversationMessage(r.sessionId, << r.id, "assistant" >>, "assistant",
                                r.reply, << >>, dbOk)
  /\ fetches' = [fetches EXCEPT ![f] =
       Returned(r, Append(r.stored, insertSucceeds(r.sessionId, dbOk)),
                [status |-> 200, review |-> NoReview, response |-> r.reply])]
  /\ UNCHANGED << user_sessions, clock, sessionData, nextId >>
  /\ UNCHANGED << parseVars, reviewTables, router >>

Next ==
  \/ Tick
  \/ \E f \in DOMAIN fetches, s \in SessionIds : StartReview(f, s, AgentCode)
  \/ \E f \in DOMAIN fetches, s \in SessionIds : StartChat(f, s, ChatMessage)
  \/ \E f \in DOMAIN fetches, dbOk \in BOOLEAN : LoadSession(f, dbOk)
  \/ \E f \in DOMAIN fetches, dbOk \in BOOLEAN : ReviewLoadHistory(f, dbOk)
  \/ \E f \in DOMAIN fetches, c \in AgentCompletions : ReviewComplete(f, c)
  \/ \E f \in DOMAIN fetches, dbOk \in BOOLEAN : ReviewStoreUser(f, dbOk)
  \/ \E f \in DOMAIN fetches, dbOk \in BOOLEAN : ReviewStoreAssistant(f, dbOk)
  \/ \E f \in DOMAIN fetches, dbOk \in BOOLEAN : ChatStoreUser(f, dbOk)
  \/ \E f \in DOMAIN fetches, dbOk \in BOOLEAN : ChatLoadHistory(f, dbOk)
  \/ \E f \in DOMAIN fetches, c \in AgentCompletions : ChatComplete(f, c)
  \/ \E f \in DOMAIN fetches, dbOk \in BOOLEAN : ChatStoreAssistant(f, dbOk)

Spec == Init /\ [][Next]_vars

(***************************************************************************)
(* The agent with two fetch invocations in flight at once, for sessions    *)
(* that both exist: the router awaits nothing between receiving a request  *)
(* and forwarding it, so the handlers of two requests, of one session or   *)
(* of two, interleave at their awaits.                                     *)
(***************************************************************************)
ConcSlots == {"a", "b"}

ConcInit ==
  /\ in_completion = [ok |-> FALSE, hasResponse |-> FALSE, response |-> << >>]
  /\ in_code = << "stmt;" >>
  /\ parsed = NotRun
  /\ review = NotRun
  /\ user_sessions = [s \in SessionIds |-> SessionRow(0)]
  /\ conversation_history = << >>
  /\ clock = 0
  /\ sessionData = [s \in SessionIds |-> NoSession]
  /\ fetches = [f \in ConcSlots |-> Idle]
  /\ nextId = 1
  /\ code_reviews = << >>
  /\ code_suggestions = << >>
  /\ router = NoRoute

\* The slots are taken in order, each by one request.
ConcFree(f) ==
  /\ fetches[f].pc = "idle"
  /\ f = "b" => fetches["a"].pc # "idle"

ConcStartReview(f, s, code) == ConcFree(f) /\ StartReview(f, s, code)

ConcStartChat(f, s, message) == ConcFree(f) /\ StartChat(f, s, message)

ConcNext ==
  \/ Tick
  \/ \E f \in DOMAIN fetches, s \in SessionIds : ConcStartReview(f, s, AgentCode)
  \/ \E f \in DOMAIN fetches, s \in SessionIds : ConcStartChat(f, s, ChatMessage)
  \/ \E f \in DOMAIN fetches, dbOk \in BOOLEAN : LoadSession(f, dbOk)
  \/ \E f \in DOMAIN fetches, dbOk \in BOOLEAN : ReviewLoadHistory(f, dbOk)
  \/ \E f \in DOMAIN fetches, c \in AgentCompletions : ReviewComplete(f, c)
  \/ \E f \in DOMAIN fetches, dbOk \in BOOLEAN : ReviewStoreUser(f, dbOk)
  \/ \E f \in DOMAIN fetches, dbOk \in BOOLEAN : ReviewStoreAssistant(f, dbOk)
  \/ \E f \in DOMAIN fetches, dbOk \in BOOLEAN : ChatStoreUser(f, dbOk)
  \/ \E f \in DOMAIN fetches, dbOk \in BOOLEAN : ChatLoadHistory(f, dbOk)
  \/ \E f \in DOMAIN fetches, c \in AgentCompletions : ChatComplete(f, c)
  \/ \E f \in DOMAIN fetches, dbOk \in BOOLEAN : ChatStoreAssistant(f, dbOk)

ConcSpec == ConcInit /\ [][ConcNext]_vars

(***************************************************************************)
(* The agent serving chat requests of sessions that already have a log:    *)
(* session s1 has as many earlier turns as the history query returns at    *)
(* most, written before time 0, and session s2 has one.                    *)
(***************************************************************************)
PriorTurn(k) ==
  Row(<< 0 - k, IF k % 2 = 1 THEN "user" ELSE "assistant" >>, "s1",
      IF k % 2 = 1 THEN "user" ELSE "assistant", << "turn" >>,
      k - HistoryLimit - 1, << >>)

PriorLog ==
  [k \in 1..HistoryLimit |-> PriorTurn(k)]
    \o << Row(<< 0 - HistoryLimit - 1, "user" >>, "s2", "user", << "turn" >>,
               0 - 1, << >>) >>

HistInit ==
  /\ in_completion = [ok |-> FALSE, hasResponse |-> FALSE, response |-> << >>]
  /\ in_code = << "stmt;" >>
  /\ parsed = NotRun
  /\ review = NotRun
  /\ user_sessions = [s \in SessionIds |-> SessionRow(0 - HistoryLimit - 1)]
  /\ conversation_history = PriorLog
  /\ clock = 0
  /\ sessionData = [s \in SessionIds |-> NoSession]
  /\ fetches = [f \in Slots |-> Idle]
  /\ nextId = 1
  /\ code_reviews = << >>
  /\ code_suggestions = << >>
  /\ router = NoRoute

HistNext ==
  \/ Tick
  \/ \E f \in DOMAIN fetches, s \in SessionIds : StartChat(f, s, ChatMessage)
  \/ \E f \in DOMAIN fetches, dbOk \in BOOLEAN : LoadSession(f, dbOk)
  \/ \E f \in DOMAIN fetches, dbOk \in BOOLEAN : ChatStoreUser(f, dbOk)
  \/ \E f \in DOMAIN fetches, dbOk \in BOOLEAN : ChatLoadHistory(f, dbOk)
  \/ \E f \in DOMAIN fetches, c \in AgentCompletions : ChatComplete(f, c)
  \/ \E f \in DOMAIN fetches, dbOk \in BOOLEAN : ChatStoreAssistant(f, dbOk)

HistSpec == HistInit /\ [][HistNext]_vars

\* The agent when nothing but the passing of time is certain: no await of
\* the handlers races a timer, so a handler takes its next step only when
\* the service it awaits answers, and no answer is guaranteed.
LiveSpec == Init /\ [][Next]_vars /\ WF_vars(Tick)

(***************************************************************************)
(* The parser and generateCodeReview as functions of their inputs: the     *)
(* completion and the code are drawn from Completions and Codes, and the   *)
(* two functions are applied to them.                                      *)
(***************************************************************************)
ParseInit ==
  /\ in_completion \in Completions
  /\ in_code \in Codes
  /\ parsed = NotRun
  /\ review = NotRun
  /\ AgentInit
  /\ router = NoRoute

\* parseAIResponse applied to the text of the completion and the code.
Parse ==
  /\ in_completion.ok /\ in_completion.hasResponse
  /\ parsed = NotRun
  /\ parsed' = << parseAIResponse(in_completion.response, in_code) >>
  /\ UNCHANGED << in_completion, in_code, review >>
  /\ UNCHANGED << agentVars, router >>

\* generateCodeReview applied to the completion and the code.
Review ==
  /\ review = NotRun
  /\ review' = << generateCodeReview(in_completion, in_code) >>
  /\ UNCHANGED << in_completion, in_code, parsed >>
  /\ UNCHANGED << agentVars, router >>

ParseNext == Parse \/ Review

ParseSpec == ParseInit /\ [][ParseNext]_vars

(***************************************************************************)
(* The router.  A POST request has reached handleCodeReview or handleChat  *)
(* with a JSON body whose fields are each missing, empty or present; the   *)
(* handler validates it, forwards it to the agent instance named by its    *)
(* sessionId, and relays what the agent answers.                           *)
(***************************************************************************)
\* !field of the validation: undefined and '' are falsy.
Missing(field) == field \in {Absent, Empty}

\* The review bodies and the chat bodies that can arrive.
ReviewBodies ==
  { [NoRoute EXCEPT !.pc = "received", !.path = "/api/review", !.code = c,
                    !.language = l, !.sessionId = s, !.userId = u] :
      c \in FieldValues, l \in FieldValues, s \in FieldValues, u \in FieldValues }

ChatBodies ==
  { [NoRoute EXCEPT !.pc = "received", !.path = "/api/chat", !.message = m,
                    !.sessionId = s, !.userId = u] :
      m \in FieldValues, s \in FieldValues, u \in FieldValues }

\* The response the router makes itself.
RouterAnswer(r, status, body) ==
  [r EXCEPT !.pc = "done", !.status = status, !.body = body]

\* env.REVIEW_AGENT.idFromName(sessionId): whether the call can return an
\* id, and whether it can throw.  A string names an instance; for undefined
\* the runtime either converts it to a string or throws a TypeError.
IdFromNameReturns(sessionId) == TRUE

IdFromNameThrows(sessionId) == sessionId = Absent

\* handleCodeReview of the router, up to reviewAgent.fetch: the validation
\* tests code, language and userId.
RouterReviewForward ==
  /\ router.pc = "received" /\ router.path = "/api/review"
  /\ \/ /\ Missing(router.code) \/ Missing(router.language) \/ Missing(router.userId)
        /\ router' = RouterAnswer(router, 400, "json-error")
     \/ /\ ~(Missing(router.code) \/ Missing(router.language) \/ Missing(router.userId))
        /\ \/ /\ IdFromNameReturns(router.sessionId)
              /\ router' = [router EXCEPT !.pc = "forwarded", !.forwarded = TRUE]
           \/ /\ IdFromNameThrows(router.sessionId)
              /\ router' = RouterAnswer(router, 500, "json-error")
  /\ UNCHANGED << parseVars, agentVars >>

\* handleChat of the router, up to reviewAgent.fetch: the validation tests
\* message, userId and sessionId.
RouterChatForward ==
  /\ router.pc = "received" /\ router.path = "/api/chat"
  /\ IF Missing(router.message) \/ Missing(router.userId) \/ Missing(router.sessionId)
     THEN router' = RouterAnswer(router, 400, "json-error")
     ELSE router' = [router EXCEPT !.pc = "forwarded", !.forwarded = TRUE]
  /\ UNCHANGED << parseVars, agentVars >>

\* The rest of either handler: await response.json() and the response made
\* of the parsed body, with the default status; a body that is not JSON,
\* or a fetch that throws, ends in the catch block.
Relay(r, answer) ==
  IF answer.body \in {"json", "json-error"}
  THEN [r EXCEPT !.pc = "done", !.agent = answer, !.status = 200,
                 !.body = answer.body]
  ELSE [r EXCEPT !.pc = "done", !.agent = answer, !.status = 500,
                 !.body = "json-error"]

RouterReviewRelay(answer) ==
  /\ router.pc = "forwarded" /\ router.path = "/api/review"
  /\ router' = Relay(router, answer)
  /\ UNCHANGED << parseVars, agentVars >>

RouterChatRelay(answer) ==
  /\ router.pc = "forwarded" /\ router.path = "/api/chat"
  /\ router' = Relay(router, answer)
  /\ UNCHANGED << parseVars, agentVars >>

RouterInit ==
  /\ in_completion = [ok |-> FALSE, hasResponse |-> FALSE, response |-> << >>]
  /\ in_code = << "stmt;" >>
  /\ parsed = NotRun
  /\ review = NotRun
  /\ AgentInit
  /\ router \in ReviewBodies \cup ChatBodies

RouterNext ==
  \/ RouterReviewForward
  \/ RouterChatForward
  \/ \E answer \in AgentAnswers : RouterReviewRelay(answer)
  \/ \E answer \in AgentAnswers : RouterChatRelay(answer)

RouterSpec == RouterInit /\ [][RouterNext]_vars

(***************************************************************************)
(* Properties.                                                             *)
(***************************************************************************)
\* The suggestions of a review that has been generated, as a set.
Returned_Suggestions ==
  IF review = NotRun THEN {}
  ELSE { review[1].suggestions[i] : i \in 1..Len(review[1].suggestions) }

\* C1: for every model text (the empty text and texts matching no grammar
\* included) and every code, parseAIResponse returns at least one suggestion.
C1_ParserNeverEmpty ==
  parsed # NotRun => Len(parsed[1]) >= 1

\* C1 witness: the empty text has been parsed, to one suggestion.
C1_Witness ==
  /\ parsed # NotRun
  /\ in_completion.response = << >>
  /\ Len(parsed[1]) = 1

\* C2: every suggestion a review returns, from any tier or from the
\* degraded path, has no line or a line within 1..number of code lines.
C2_LineWithinCode ==
  \A s \in Returned_Suggestions :
    s.hasLine => (1 <= s.line /\ s.line <= Len(in_code))

\* C2 witness: a review of a text that refers to line 9, which no code
\* has, returned a suggestion anchored at the last line of the code.
C2_Witness ==
  /\ \E i \in 1..Len(in_completion.response) :
       LeadingNumber(in_completion.response[i]) = 9
  /\ \E s \in Returned_Suggestions : s.hasLine /\ s.line = Len(in_code)

\* C3: a review whose completion call failed returns exactly one
\* suggestion, confidence 0.0 and a summary containing "unavailable".
C3_DegradedReview ==
  \A f \in DOMAIN fetches :
    LET r == fetches[f] IN
    (r.pc = "done" /\ r.kind = "review" /\ ~r.completion.ok)
      => /\ Len(r.response.review.suggestions) = 1
         /\ r.response.review.confidence = 0
         /\ Includes(r.response.review.summary, "unavailable")

\* C3 witness: a review has returned after its completion call failed.
C3_Witness ==
  \E f \in DOMAIN fetches :
    /\ fetches[f].pc = "done" /\ fetches[f].kind = "review"
    /\ ~fetches[f].completion.ok
    /\ fetches[f].response.status = 200

\* The rows of conversation_history inserted by request n, in log order.
RowsOf(n) == SelectSeq(conversation_history, LAMBDA row : row.id[1] = n)

\* A row without its id and its timestamp.
Turn(row) ==
  [session_id |-> row.session_id, role |-> row.role, content |-> row.content,
   code_context |-> row.code_context]

\* The two turns a review request writes, as rows.
ReviewTurns(r) ==
  << [session_id |-> r.sessionId, role |-> "user", content |-> ReviewUserTurn,
      code_context |-> r.code],
     [session_id |-> r.sessionId, role |-> "assistant",
      content |-> r.response.review.summary, code_context |-> << >>] >>

\* C4 as claimed: a review request that has returned, successful or
\* degraded, has appended exactly two messages to its session's log, the
\* user turn describing the request and then the assistant turn carrying
\* the returned summary.
C4_ExactlyTwoTurns ==
  \A f \in DOMAIN fetches :
    LET r == fetches[f] IN
    (r.pc = "done" /\ r.kind = "review")
      => /\ Len(RowsOf(r.id)) = 2
         /\ Turn(RowsOf(r.id)[1]) = ReviewTurns(r)[1]
         /\ Turn(RowsOf(r.id)[2]) = ReviewTurns(r)[2]

\* C4 amended: a review request that has returned has made exactly two
\* store calls, for the user turn and then for the assistant turn carrying
\* the returned summary, and its rows in the log are exactly the turns
\* whose insert succeeded, in that order: at most two, and two when both
\* inserts succeeded.
C4_TwoStoresBestEffort ==
  \A f \in DOMAIN fetches :
    LET r == fetches[f]
        kept == { i \in 1..2 : r.stored[i] }
    IN
    (r.pc = "done" /\ r.kind = "review")
      => /\ Len(r.stored) = 2
         /\ Len(RowsOf(r.id)) = Cardinality(kept)
         /\ 1 \in kept => Turn(RowsOf(r.id)[1]) = ReviewTurns(r)[1]
         /\ 2 \in kept => Turn(RowsOf(r.id)[Cardinality(kept)]) = ReviewTurns(r)[2]

\* C4 witness: a degraded review has returned with both of its turns in the
\* log.
C4_Witness ==
  \E f \in DOMAIN fetches :
    /\ fetches[f].pc = "done" /\ fetches[f].kind = "review"
    /\ ~fetches[f].completion.ok
    /\ fetches[f].stored = << TRUE, TRUE >>
    /\ Len(RowsOf(fetches[f].id)) = 2

\* Request n has a row of this role in the log.
HasTurn(n, role) ==
  \E i \in 1..Len(conversation_history) : conversation_history[i].id = << n, role >>

\* C5 as claimed: a chat request that returned a normal success response
\* has both of its turns in the store or neither; it never returns success
\* with exactly one of the two persisted.
C5_NoSilentPartialWrite ==
  \A f \in DOMAIN fetches :
    LET r == fetches[f] IN
    (r.pc = "done" /\ r.kind = "chat" /\ r.response.status = 200)
      => (HasTurn(r.id, "user") <=> HasTurn(r.id, "assistant"))

\* A fetch holds the history it loaded.
HistoryLoaded(r) ==
  \/ r.pc \in {"complete", "storeAssistant"}
  \/ r.kind = "review" /\ r.pc = "storeUser"

\* C6 as claimed: the history loadConversationHistory returned is in
\* chronological order, oldest first, and a chat prompt embeds it in that
\* order.
C6_HistoryOldestFirst ==
  \A f \in DOMAIN fetches :
    LET r == fetches[f] IN
    HistoryLoaded(r)
      => /\ \A i, j \in 1..Len(r.history) :
              i < j => r.history[i].timestamp <= r.history[j].timestamp
         /\ r.kind = "chat" => r.prompt.history = HistoryLines(r.history)

\* The severity the table of the specification allows for a type.
TableAllows(type, severity) ==
  /\ type \in {"security", "bug"} => severity \in {"high", "critical"}
  /\ type \in {"performance", "optimization"} => severity = "medium"
  /\ type = "style" => severity = "low"

\* C7 as claimed: every suggestion a review returns, from any tier or from
\* the degraded fallback, has the severity the table gives for its type:
\* security and bug high or critical, performance and optimization medium,
\* style low.
C7_SeverityByTable ==
  \A s \in Returned_Suggestions : TableAllows(s.type, s.severity)

Escalated(text) == Includes(text, "critical") \/ Includes(text, "severe")

\* The suggestions of the parser that has run, by position.
Parsed_Result == IF parsed = NotRun THEN << >> ELSE parsed[1]

\* C8 as claimed: a returned suggestion of type security or bug is critical
\* exactly when its own message contains "critical" or "severe", and high
\* otherwise, in the strict-grammar tier as in the heuristic tier.
C8_CriticalIffMessageEscalates ==
  \A i \in 1..Len(Parsed_Result) :
    LET s == Parsed_Result[i] IN
    s.type \in {"security", "bug"}
      => s.severity = (IF Escalated(s.message) THEN "critical" ELSE "high")

\* The block each suggestion of the heuristic tier comes from, by position.
RECURSIVE BlockOrigins(_, _)
BlockOrigins(sections, lines) ==
  IF sections = << >> THEN << >>
  ELSE [i \in 1..Len(SectionSuggestions(Head(sections), lines)) |-> Head(sections)]
         \o BlockOrigins(Tail(sections), lines)

\* C8 amended: a suggestion of type security or bug returned by the parser
\* is high or critical; a strict-grammar match is always high, whatever its
\* description says, and a suggestion of a heuristic block is critical
\* exactly when the text of the whole block, not only the extracted
\* message, contains "critical" or "severe".
C8_CriticalIffBlockEscalates ==
  LET text == in_completion.response
      strict == StrictTier(text, in_code)
      origins == BlockOrigins(SplitSections(text), SplitLines(in_code))
  IN
  \A i \in 1..Len(Parsed_Result) :
    LET s == Parsed_Result[i] IN
    s.type \in {"security", "bug"}
      => IF Len(strict) # 0 THEN s.severity = "high"
         ELSE /\ i <= Len(origins)
              /\ s.severity = (IF Escalated(origins[i]) THEN "critical" ELSE "high")

\* C8 witness: the parser returned a critical suggestion whose message has
\* no escalation keyword (the keyword is elsewhere in its block), and the
\* strict-grammar tier had matched nothing.
C8_Witness ==
  /\ parsed # NotRun
  /\ Len(StrictTier(in_completion.response, in_code)) = 0
  /\ \E i \in 1..Len(Parsed_Result) :
       /\ Parsed_Result[i].type \in {"security", "bug"}
       /\ Parsed_Result[i].severity = "critical"
       /\ ~Escalated(Parsed_Result[i].message)

\* C9 as claimed: every suggestion of the strict-grammar tier has one of the
\* five types, a match with another TYPE tag giving style.
C9_StrictTypesEnumerated ==
  (parsed # NotRun /\ Len(StrictTier(in_completion.response, in_code)) # 0)
    => \A i \in 1..Len(Parsed_Result) : Parsed_Result[i].type \in IssueTypes

\* The lines of a text: the pieces between its newlines.
RECURSIVE TextLines(_)
TextLines(text) ==
  LET breaks == {i \in 1..Len(text) : text[i] = NL} IN
  IF breaks = {} THEN << text >>
  ELSE LET k == CHOOSE x \in breaks : \A y \in breaks : x <= y IN
       << SubSeq(text, 1, k - 1) >> \o TextLines(SubSeq(text, k + 1, Len(text)))

\* A line of the strict grammar: Line <n>: <TYPE> <description> | Fix: <fix>,
\* the separator occurring once.
IsGrammarLine(line) ==
  /\ Len(line) >= 7
  /\ IsLineWord(line[1]) /\ IsNumColon(line[2]) /\ IsWord(line[3])
  /\ \E p \in 5..(Len(line) - 2) :
       /\ line[p] = "|" /\ Lower(line[p + 1]) = "fix:"
       /\ \A q \in 1..Len(line) : line[q] = "|" => q = p

\* The line numbers of the grammar lines of a text that are within the code,
\* in the order of the text.
RECURSIVE InRangeNumbers(_, _)
InRangeNumbers(textLines, n) ==
  IF textLines = << >> THEN << >>
  ELSE LET k == LeadingNumber(Head(textLines)[2]) IN
       (IF 1 <= k /\ k <= n THEN << k >> ELSE << >>)
         \o InRangeNumbers(Tail(textLines), n)

\* C10: for a text made of strict-grammar lines, at least one of them with
\* a line number within the code, the suggestions carrying a line are as
\* many as the grammar lines with a line number in 1..lineCount, and carry
\* those numbers; an out-of-range match is dropped, not clamped.
C10_InRangeMatchesCounted ==
  LET lines == TextLines(in_completion.response)
      expected == InRangeNumbers(lines, Len(in_code))
      anchored == SelectSeq(Parsed_Result, LAMBDA s : s.hasLine)
  IN
  (/\ parsed # NotRun
   /\ \A i \in 1..Len(lines) : IsGrammarLine(lines[i])
   /\ Len(expected) >= 1)
    => /\ Len(anchored) = Len(expected)
       /\ \A i \in 1..Len(expected) : anchored[i].line = expected[i]

\* C10 witness: a text of two grammar lines, one within the code and one
\* beyond it, has been parsed to one suggestion.
C10_Witness ==
  LET lines == TextLines(in_completion.response) IN
  /\ parsed # NotRun
  /\ Len(lines) = 2
  /\ \A i \in 1..Len(lines) : IsGrammarLine(lines[i])
  /\ Len(InRangeNumbers(lines, Len(in_code))) = 1
  /\ Len(Parsed_Result) = 1

\* C11: the result of the parser is the output of one tier: of the
\* strict-grammar tier when that produced a suggestion, otherwise of the
\* heuristic-block tier when that produced one, and the general "review
\* completed" suggestion alone only when both produced none.
C11_FirstTierWins ==
  LET strict == StrictTier(in_completion.response, in_code)
      blocks == HeuristicTier(in_completion.response, in_code)
      general == \E i \in 1..Len(Parsed_Result) : Parsed_Result[i] = GeneralSuggestion
  IN
  parsed # NotRun
    => /\ Len(strict) # 0 => Parsed_Result = strict
       /\ (Len(strict) = 0 /\ Len(blocks) # 0) => Parsed_Result = blocks
       /\ general => (Len(strict) = 0 /\ Len(blocks) = 0 /\ Len(Parsed_Result) = 1)

\* C11 witness: a text from which both the strict-grammar tier and the
\* heuristic-block tier extract suggestions has been parsed, and the result
\* is the strict-grammar tier's.
C11_Witness ==
  /\ parsed # NotRun
  /\ Len(StrictTier(in_completion.response, in_code)) # 0
  /\ Len(HeuristicTier(in_completion.response, in_code)) # 0
  /\ Parsed_Result = StrictTier(in_completion.response, in_code)

\* The blocks of a text that reach the length threshold and have no
\* "line N" mention.
LinelessBlocks(text) ==
  SelectSeq(SplitSections(text),
            LAMBDA section : /\ CharLen(Trim(section)) >= MinSectionLength
                             /\ Len(LineRefs(section, 1)) = 0)

\* C12 as claimed: when the heuristic-block tier runs, every block at or
\* above the length threshold without a "line N" mention produces exactly
\* one suggestion, and that suggestion has no line.
C12_LinelessBlockSuggestion ==
  LET text == in_completion.response
      blocks == LinelessBlocks(text)
  IN
  (parsed # NotRun /\ Len(StrictTier(text, in_code)) = 0)
    => \A i \in 1..Len(blocks) :
         LET out == SectionSuggestions(blocks[i], SplitLines(in_code)) IN
         /\ Len(out) = 1
         /\ ~out[1].hasLine
         /\ \E j \in 1..Len(Parsed_Result) : Parsed_Result[j] = out[1]

\* C13: a request whose completion call threw has returned with a success
\* status: a review with the degraded review as its result, a chat with a
\* non-empty text (the apology) as its response.
C13_CompletionFailureContained ==
  \A f \in DOMAIN fetches :
    LET r == fetches[f] IN
    (r.pc = "done" /\ ~r.completion.ok)
      => /\ r.response.status = 200
         /\ r.kind = "review" => r.response.review = FallbackReview
         /\ r.kind = "chat" => /\ r.response.response # << >>
                               /\ r.response.response = Apology

\* C13 witness: a chat has returned after its completion call threw.
C13_Witness ==
  \E f \in DOMAIN fetches :
    /\ fetches[f].pc = "done" /\ fetches[f].kind = "chat"
    /\ ~fetches[f].completion.ok
    /\ fetches[f].response.status = 200

\* C14: whatever persistence calls failed during a request (the session
\* load, the history load, either insert), the request returns with a
\* success status the result determined by its completion alone: the
\* review generated from the completion and the code, or the chat reply
\* made from the completion.
C14_PersistenceFailureContained ==
  \A f \in DOMAIN fetches :
    LET r == fetches[f] IN
    r.pc = "done"
      => /\ r.response.status = 200
         /\ r.kind = "review"
              => /\ r.response.review = generateCodeReview(r.completion, r.code)
                 /\ r.response.response = << >>
         /\ r.kind = "chat"
              => /\ r.response.response = ChatReply(r.completion)
                 /\ r.response.review = NoReview

\* C14 witness: a request for an existing session has returned a success
\* although its session load failed (the instance has no session) and both
\* of its inserts failed.
C14_Witness ==
  \E f \in DOMAIN fetches :
    /\ fetches[f].pc = "done"
    /\ fetches[f].sessionId \in ExistingSessions
    /\ sessionData[fetches[f].sessionId] = NoSession
    /\ fetches[f].stored = << FALSE, FALSE >>
    /\ fetches[f].completion.ok
    /\ fetches[f].response.status = 200

\* The content of the assistant row request n inserted.
AssistantContents(n) ==
  { conversation_history[i].content :
      i \in { j \in 1..Len(conversation_history) :
                conversation_history[j].id = << n, "assistant" >> } }

\* C15 as claimed: a chat whose completion call answered a text returns
\* exactly that text, and the assistant turn it stored has that text as
\* its content.
C15_ChatReturnsCompletionText ==
  \A f \in DOMAIN fetches :
    LET r == fetches[f] IN
    (r.pc = "done" /\ r.kind = "chat" /\ r.completion.ok /\ r.completion.hasResponse)
      => /\ r.response.response = r.completion.response
         /\ AssistantContents(r.id) \subseteq { r.completion.response }

\* C15 amended: a chat whose completion call answered a non-empty text
\* returns exactly that text, unparsed; an empty text is replaced by the
\* apology; and the assistant turn, when its insert succeeded, has the
\* returned text as its content.
C15_ChatReturnsNonEmptyTextVerbatim ==
  \A f \in DOMAIN fetches :
    LET r == fetches[f] IN
    (r.pc = "done" /\ r.kind = "chat" /\ r.completion.ok /\ r.completion.hasResponse)
      => /\ r.completion.response # << >>
              => r.response.response = r.completion.response
         /\ r.completion.response = << >> => r.response.response = Apology
         /\ AssistantContents(r.id) \subseteq { r.response.response }
         /\ r.stored[2] => AssistantContents(r.id) # {}

\* C15 witness: a chat has returned a text that the suggestion parser and
\* the summary would have changed, and stored it.
C15_Witness ==
  \E f \in DOMAIN fetches :
    LET r == fetches[f] IN
    /\ r.pc = "done" /\ r.kind = "chat"
    /\ r.completion.ok /\ r.completion.hasResponse
    /\ r.completion.response # << >>
    /\ extractSummary(r.completion.response) # r.completion.response
    /\ r.response.response = r.completion.response
    /\ AssistantContents(r.id) = { r.completion.response }

\* C16 as claimed: a request that has returned for an existing session has
\* set the session's last-active timestamp to a time within the request,
\* and the sessions that existed are still there.
C16_LastActiveUpdated ==
  /\ \A f \in DOMAIN fetches :
       LET r == fetches[f] IN
       (r.pc = "done" /\ r.sessionId \in DOMAIN user_sessions)
         => user_sessions[r.sessionId].last_active >= r.at
  /\ ExistingSessions \subseteq DOMAIN user_sessions

\* The log of a session has strictly increasing timestamps in append order.
StrictlyIncreasing(log) ==
  \A i, j \in 1..Len(log) :
    (i < j /\ log[i].session_id = log[j].session_id)
      => log[i].timestamp < log[j].timestamp

\* The log `after` is the log `before` with rows appended.
Extends(before, after) ==
  /\ Len(before) <= Len(after)
  /\ SubSeq(after, 1, Len(before)) = before

\* C17 as claimed: in every reachable state the messages of each session
\* have strictly increasing timestamps in append order, the two messages
\* of one request included, and every step leaves the stored messages in
\* place, only appending.
C17_StrictTimestampsAppendOnly ==
  /\ [](StrictlyIncreasing(conversation_history))
  /\ [][Extends(conversation_history, conversation_history')]_vars

\* C18 as claimed: every review or chat request that has been received
\* eventually returns a response, whether or not the completion call and
\* the persistence calls it awaits ever answer.
C18_EventuallyReturns ==
  \A f \in Slots : (~Free(f)) ~> (fetches[f].pc = "done")

\* The messages of session b in a log, in append order.
LogIn(log, b) == SelectSeq(log, LAMBDA row : row.session_id = b)

\* C19: a step in which no request of session b moves (any step of a
\* request of another session, under any interleaving) leaves the stored
\* messages of b, the session row of b and the session held by b's
\* instance unchanged.  (The agent stores no review records at all.)
C19_OtherSessionsUntouched ==
  [][\A b \in SessionIds :
       (\A f \in DOMAIN fetches :
          fetches'[f] # fetches[f] => fetches'[f].sessionId # b)
         => /\ LogIn(conversation_history', b) = LogIn(conversation_history, b)
            /\ user_sessions'[b] = user_sessions[b]
            /\ sessionData'[b] = sessionData[b]]_vars

\* C19 witness: requests of two sessions have interleaved their writes: a
\* message of one session lies between two messages of the other.
C19_Witness ==
  \E i, j, k \in 1..Len(conversation_history) :
    /\ i < j /\ j < k
    /\ conversation_history[i].session_id = conversation_history[k].session_id
    /\ conversation_history[j].session_id # conversation_history[i].session_id
    /\ \A f \in DOMAIN fetches : fetches[f].pc = "done"

\* C20 as claimed: in the log of each session, the user turn of a request
\* whose assistant turn is stored too is immediately followed by that
\* assistant turn, with no turn of another request in between.
C20_TurnsNotInterleaved ==
  \A b \in SessionIds :
    LET log == LogIn(conversation_history, b) IN
    \A i, j \in 1..Len(log) :
      (log[i].id[2] = "user" /\ log[j].id = << log[i].id[1], "assistant" >>)
        => j = i + 1

\* C21 as claimed: a chat request has written no message before its
\* completion call has returned, and the history it loaded and embedded in
\* its prompt has no message of the request itself (an empty prior history
\* gives an empty embedded history).
C21_HistoryLoadedBeforeTurns ==
  \A f \in DOMAIN fetches :
    LET r == fetches[f] IN
    (r.kind = "chat" /\ r.pc \in {"storeUser", "loadHistory", "complete"})
      => /\ Len(RowsOf(r.id)) = 0
         /\ r.pc = "complete"
              => /\ \A i \in 1..Len(r.history) : r.history[i].id[1] # r.id
                 /\ Len(r.prompt.history) = Len(r.history)

\* C22 as claimed: the prompt a review request sends to the completion
\* service contains the code and the conversation history that was loaded
\* for the session.
C22_ReviewPromptHasHistory ==
  \A f \in DOMAIN fetches :
    LET r == fetches[f] IN
    (r.kind = "review" /\ r.pc = "complete")
      => /\ r.prompt.code = r.code
         /\ r.prompt.history = HistoryLines(r.history)

\* The rows of code_reviews made for request n, and the rows of
\* code_suggestions that reference it.
ReviewRows(n) == SelectSeq(code_reviews, LAMBDA row : row.review_id = n)

SuggestionRows(n) == SelectSeq(code_suggestions, LAMBDA row : row.review_id = n)

\* C23 as claimed: a review request that has returned has created exactly
\* one row of code_reviews, owned by its session and carrying the returned
\* summary and confidence, and one row of code_suggestions per returned
\* suggestion, referencing that review.
C23_ReviewRecordCreated ==
  \A f \in DOMAIN fetches :
    LET r == fetches[f] IN
    (r.pc = "done" /\ r.kind = "review")
      => /\ Len(ReviewRows(r.id)) = 1
         /\ ReviewRows(r.id)[1].session_id = r.sessionId
         /\ ReviewRows(r.id)[1].review_summary = r.response.review.summary
         /\ ReviewRows(r.id)[1].confidence_score = r.response.review.confidence
         /\ Len(SuggestionRows(r.id)) = Len(r.response.review.suggestions)

\* The fields a body must have.
LacksRequiredField(r) ==
  IF r.path = "/api/review"
  THEN Missing(r.code) \/ Missing(r.language) \/ Missing(r.sessionId) \/ Missing(r.userId)
  ELSE Missing(r.message) \/ Missing(r.sessionId) \/ Missing(r.userId)

\* C24 as claimed: a review or chat body that lacks a required field
\* (review: code, language, sessionId, userId; chat: message, sessionId,
\* userId) is never forwarded to the agent, and is answered with an error.
C24_MalformedNeverForwarded ==
  (router.pc \in {"forwarded", "done"} /\ LacksRequiredField(router))
    => /\ ~router.forwarded
       /\ router.pc = "done" /\ router.status >= 400

ReviewOrder ==
  { << "idle", "loadSession" >>, << "done", "loadSession" >>,
    << "loadSession", "loadHistory" >>, << "loadHistory", "complete" >>,
    << "complete", "storeUser" >>, << "storeUser", "storeAssistant" >>,
    << "storeAssistant", "done" >> }

\* C25: a review request takes its steps in the order load session, load
\* history and build the prompt, completion call, parse, store the two
\* turns, return; it has written no turn before its completion call has
\* returned or failed; and after a failed call its result is the fallback
\* review with its single suggestion, nothing having been parsed, which it
\* then persists.
C25_ReviewStepsInOrder ==
  /\ [](\A f \in DOMAIN fetches :
          LET r == fetches[f] IN
          r.kind = "review"
            => /\ r.pc \in {"loadSession", "loadHistory", "complete"}
                    => Len(RowsOf(r.id)) = 0
               /\ r.pc \in {"storeUser", "storeAssistant"}
                    => IF r.completion.ok /\ r.completion.hasResponse
                       THEN r.review.suggestions
                              = parseAIResponse(r.completion.response, r.code)
                       ELSE /\ r.review = FallbackReview
                            /\ Len(r.review.suggestions) = 1)
  /\ [][\A f \in DOMAIN fetches :
          (fetches'[f].kind = "review" /\ fetches'[f].pc # fetches[f].pc)
            => << fetches[f].pc, fetches'[f].pc >> \in ReviewOrder]_vars

\* C25 witness: a review whose completion call failed is persisting: it has
\* stored its user turn and holds the fallback review.
C25_Witness ==
  \E f \in DOMAIN fetches :
    LET r == fetches[f] IN
    /\ r.kind = "review" /\ r.pc = "storeAssistant"
    /\ ~r.completion.ok
    /\ r.review = FallbackReview
    /\ Len(RowsOf(r.id)) = 1

\* The keyword classes in the order of the claim, each with its type, its
\* severity and its keywords.
KeywordClasses ==
  << [type |-> "security", severity |-> "high",
      words |-> {"security", "vulnerability", "injection", "xss", "csrf",
                 "authentication"}],
     [type |-> "bug", severity |-> "high",
      words |-> {"bug", "error", "undefined", "null", "exception", "crash",
                 "unterminated", "missing"}],
     [type |-> "performance", severity |-> "medium",
      words |-> {"performance", "slow", "inefficient", "optimize",
                 "bottleneck", "memory"}],
     [type |-> "optimization", severity |-> "medium",
      words |-> {"optimization", "improve", "better", "refactor"}] >>

StyleClass == [type |-> "style", severity |-> "low", words |-> {}]

\* The first class, in that order, with a keyword in the block; the style
\* class when there is none.
FirstClass(block) ==
  LET hits == {k \in 1..Len(KeywordClasses) :
                 \E w \in KeywordClasses[k].words : Includes(block, w)}
  IN IF hits = {} THEN StyleClass
     ELSE KeywordClasses[CHOOSE k \in hits : \A h \in hits : k <= h]

\* The parser has run and its result is the heuristic tier's.
HeuristicResult ==
  /\ parsed # NotRun
  /\ Len(StrictTier(in_completion.response, in_code)) = 0
  /\ Len(HeuristicTier(in_completion.response, in_code)) # 0

\* C26 as claimed: every suggestion of the heuristic tier has the type and
\* the severity of the first keyword class, in the order security, bug,
\* performance, optimization, that has a keyword in its block: security
\* high, bug high, performance medium, optimization medium, and style low
\* when no class has one.
C26_FirstKeywordClassDecides ==
  LET origins == BlockOrigins(SplitSections(in_completion.response),
                              SplitLines(in_code))
  IN
  HeuristicResult
    => \A i \in 1..Len(Parsed_Result) :
         /\ Parsed_Result[i].type = FirstClass(origins[i]).type
         /\ Parsed_Result[i].severity = FirstClass(origins[i]).severity

\* C26 amended: every suggestion of the heuristic tier has the type of the
\* first keyword class, in the order security, bug, performance,
\* optimization, that has a keyword in its block (style when none has);
\* its severity is that class's severity, except that a security or bug
\* block containing "critical" or "severe" gives critical.
C26_FirstKeywordClassDecidesType ==
  LET origins == BlockOrigins(SplitSections(in_completion.response),
                              SplitLines(in_code))
  IN
  HeuristicResult
    => \A i \in 1..Len(Parsed_Result) :
         LET class == FirstClass(origins[i]) IN
         /\ Parsed_Result[i].type = class.type
         /\ Parsed_Result[i].severity =
              (IF class.type \in {"security", "bug"} /\ Escalated(origins[i])
               THEN "critical" ELSE class.severity)

\* C26 witness: a block with a security keyword and a bug keyword has given
\* a security suggestion.
C26_Witness ==
  LET origins == BlockOrigins(SplitSections(in_completion.response),
                              SplitLines(in_code))
  IN
  /\ HeuristicResult
  /\ \E i \in 1..Len(Parsed_Result) :
       /\ \E w \in KeywordClasses[1].words : Includes(origins[i], w)
       /\ \E w \in KeywordClasses[2].words : Includes(origins[i], w)
       /\ Parsed_Result[i].type = "security"
       /\ Parsed_Result[i].severity = "high"

\* The distinct line numbers a block mentions that are lines of the code.
DistinctInRange(block, lines) ==
  LET refs == LineRefs(block, 1) IN
  { refs[i] : i \in { j \in 1..Len(refs) : 1 <= refs[j] /\ refs[j] <= Len(lines) } }

\* C27 as claimed: when the heuristic tier runs, a block that reaches the
\* length threshold gives as many suggestions as it mentions distinct line
\* numbers within the code, one per such line, and none for a line number
\* outside it.
C27_OnePerDistinctLine ==
  LET lines == SplitLines(in_code)
      blocks == SplitSections(in_completion.response)
  IN
  (parsed # NotRun /\ Len(StrictTier(in_completion.response, in_code)) = 0)
    => \A i \in 1..Len(blocks) :
         (CharLen(Trim(blocks[i])) >= MinSectionLength
            /\ Len(LineRefs(blocks[i], 1)) > 0)
           => LET out == SectionSuggestions(blocks[i], lines) IN
              /\ Len(out) = Cardinality(DistinctInRange(blocks[i], lines))
              /\ \A k \in 1..Len(out) :
                   out[k].hasLine /\ out[k].line \in DistinctInRange(blocks[i], lines)

\* The rows of a history, and the rows of the log that belong to session b.
RowSet(history) == { history[i] : i \in 1..Len(history) }

SessionRows(b) == RowSet(LogIn(conversation_history, b))

\* `history` is a window of the latest rows of session b: all of them when
\* they are at most HistoryLimit, otherwise HistoryLimit of them, none
\* earlier than a row left out.
LatestWindow(history, b) ==
  /\ RowSet(history) \subseteq SessionRows(b)
  /\ Cardinality(RowSet(history)) = Len(history)
  /\ Len(history) = IF Cardinality(SessionRows(b)) <= HistoryLimit
                    THEN Cardinality(SessionRows(b)) ELSE HistoryLimit
  /\ \A old \in SessionRows(b) \ RowSet(history) :
       \A i \in 1..Len(history) : old.timestamp <= history[i].timestamp

\* C28 as claimed: the history embedded in the prompt of a chat request
\* has at most 10 messages, all of the request's session, and they are the
\* 10 messages of that session with the latest timestamps (all of them
\* when the session has fewer), whatever the size of the stored log.
C28_PromptHasLatestTen ==
  \A f \in DOMAIN fetches :
    LET r == fetches[f] IN
    (r.kind = "chat" /\ r.pc = "complete")
      => /\ r.prompt.history = HistoryLines(r.history)
         /\ Len(r.prompt.history) <= HistoryLimit
         /\ \A i \in 1..Len(r.history) : r.history[i].session_id = r.sessionId
         /\ LatestWindow(r.history, r.sessionId)

\* C28 amended: the history embedded in the prompt of a chat request has
\* at most 10 messages, all of the request's session; when the history
\* query succeeded they are the 10 messages of that session with the
\* latest timestamps (all of them when the session has fewer), and when it
\* failed the embedded history is empty.
C28_PromptHasLatestTenOrNothing ==
  \A f \in DOMAIN fetches :
    LET r == fetches[f] IN
    (r.kind = "chat" /\ r.pc = "complete")
      => /\ r.prompt.history = HistoryLines(r.history)
         /\ Len(r.prompt.history) <= HistoryLimit
         /\ \A i \in 1..Len(r.history) : r.history[i].session_id = r.sessionId
         /\ r.history = << >> \/ LatestWindow(r.history, r.sessionId)

\* C28 witness: a chat of a session with more than 10 stored messages holds
\* a prompt with 10 of them, the earliest message of the session left out.
C28_Witness ==
  \E f \in DOMAIN fetches :
    LET r == fetches[f] IN
    /\ r.kind = "chat" /\ r.pc = "complete"
    /\ Cardinality(SessionRows(r.sessionId)) > HistoryLimit
    /\ Len(r.prompt.history) = HistoryLimit
    /\ \E old \in SessionRows(r.sessionId) \ RowSet(r.history) :
         \A i \in 1..Len(r.history) : old.timestamp < r.history[i].timestamp

\* C29: every message a step of a request appends to the store is stored
\* under the sessionId the request carries, also when the request's own
\* session lookup did not load the session row.
C29_StoredUnderRequestSession ==
  [][\A f \in DOMAIN fetches :
       fetches'[f] # fetches[f]
         => /\ Extends(conversation_history, conversation_history')
            /\ \A i \in (Len(conversation_history) + 1)..Len(conversation_history') :
                 /\ conversation_history'[i].id[1] = fetches[f].id
                 /\ conversation_history'[i].session_id = fetches[f].sessionId]_vars

\* C29 witness: a request whose session lookup failed has stored a message
\* (the instance still held the session loaded by an earlier request), and
\* the message is under the request's sessionId.
C29_Witness ==
  \E f \in DOMAIN fetches :
    LET r == fetches[f] IN
    /\ r.pc \in {"loadHistory", "storeAssistant"}
    /\ ~r.loaded
    /\ Len(RowsOf(r.id)) = 1
    /\ RowsOf(r.id)[1].session_id = r.sessionId

====
